---- MODULE Spec2Model ----
(***************************************************************************)
(* A model of app.py: the single Flask route index() that compares two     *)
(* uploaded documents through one Azure OpenAI chat-completion call.       *)
(*                                                                         *)
(* Python values are tagged records ([kind |-> ..., val |-> ...]).  A str  *)
(* that the program inspects character by character is a tuple of          *)
(* characters; a character is a one-character string, or the name          *)
(* "U+XXXX" of its code point when it cannot be written in a TLA+ string   *)
(* (the backtick, non-ASCII characters).  bytes are tuples of 0..255.      *)
(***************************************************************************)
EXTENDS Integers, Sequences, FiniteSets, TLC

VARIABLES client, pc, request, upstream, file1, file2, content1, content2,
          prompt, response_content, results, error, exc, calls, raised, page

vars == <<client, pc, request, upstream, file1, file2, content1, content2,
          prompt, response_content, results, error, exc, calls, raised, page>>

----------------------------------------------------------------------------
(* Python values *)

PyNone == [kind |-> "None"]

\* a local variable of index() that no statement has assigned yet
Unbound == [kind |-> "unbound"]

PyStr(chars) == [kind |-> "str", val |-> chars]

PyInt(n) == [kind |-> "int", val |-> n]

PyBool(b) == [kind |-> "bool", val |-> b]

PyFloat(name) == [kind |-> "float", val |-> name]

PyList(elems) == [kind |-> "list", val |-> elems]

PyDict(items) == [kind |-> "dict", val |-> items]

\* the characters of a TLA+ string literal, as a tuple
Chars(s) == <<>> \o [i \in 1..Len(s) |-> SubSeq(s, i, i)]

BT == "U+0060"

DQ == "\""

BS == "\\"

EOF == ""

At(s, i) == IF i >= 1 /\ i <= Len(s) THEN s[i] ELSE EOF

\* s[i:i+len(lit)] == lit, for a 1-based i
MatchAt(s, i, lit) ==
    /\ i >= 1
    /\ i + Len(lit) - 1 <= Len(s)
    /\ SubSeq(s, i, i + Len(lit) - 1) = lit

\* the least index from i on of a character of s that is in stop (not in
\* stop, when inside is FALSE); Len(s) + 1 when there is none
Find(s, i, stop, inside) ==
    IF i <= Len(s) /\ (s[i] \in stop) = inside THEN i
    ELSE LET hits == {j \in i..Len(s) : (s[j] \in stop) = inside} IN
         IF hits = {} THEN Len(s) + 1
         ELSE CHOOSE j \in hits : \A k \in hits : j <= k

\* the greatest index of a character of s that is not in stop; 0 when none
FindLastNotIn(s, stop) ==
    LET hits == {j \in 1..Len(s) : s[j] \notin stop} IN
    IF hits = {} THEN 0
    ELSE CHOOSE j \in hits : \A k \in hits : j >= k

\* s[start:stop] for 0-based start >= 0 and stop counted from the left
Slice(s, start, stop) ==
    IF start >= stop \/ start >= Len(s) THEN <<>>
    ELSE SubSeq(s, start + 1, IF stop > Len(s) THEN Len(s) ELSE stop)

----------------------------------------------------------------------------
(* bytes.decode('utf-8', errors='ignore') *)

HexDigits == Chars("0123456789ABCDEF")

RECURSIVE Hex(_, _)
Hex(n, width) ==
    IF width = 0 /\ n = 0 THEN ""
    ELSE Hex(n \div 16, IF width = 0 THEN 0 ELSE width - 1) \o HexDigits[(n % 16) + 1]

Printable ==
    Chars(" !") \o <<DQ>>
        \o Chars("#$%&'()*+,-./0123456789:;<=>?@ABCDEFGHIJKLMNOPQRSTUVWXYZ[")
        \o <<BS>> \o Chars("]^_") \o <<BT>>
        \o Chars("abcdefghijklmnopqrstuvwxyz{|}~")

\* the character of code point cp
Chr(cp) ==
    IF cp = 9 THEN "\t"
    ELSE IF cp = 10 THEN "\n"
    ELSE IF cp = 12 THEN "\f"
    ELSE IF cp = 13 THEN "\r"
    ELSE IF cp \in 32..126 THEN Printable[cp - 31]
    ELSE "U+" \o Hex(cp, 4)

IsCont(b) == b \in 128..191

\* length of the UTF-8 sequence a lead byte announces, 0 for an invalid start
SeqLen(b) ==
    IF b < 128 THEN 1
    ELSE IF b \in 194..223 THEN 2
    ELSE IF b \in 224..239 THEN 3
    ELSE IF b \in 240..244 THEN 4
    ELSE 0

\* the second byte of a sequence: overlong forms, surrogates and code points
\* above U+10FFFF are rejected here
SecondOK(b1, b2) ==
    IF b1 = 224 THEN b2 \in 160..191
    ELSE IF b1 = 237 THEN b2 \in 128..159
    ELSE IF b1 = 240 THEN b2 \in 144..191
    ELSE IF b1 = 244 THEN b2 \in 128..143
    ELSE IsCont(b2)

\* a complete valid sequence starts at data[i]
ValidAt(data, i) ==
    LET n == SeqLen(data[i]) IN
    /\ n >= 1
    /\ i + n - 1 <= Len(data)
    /\ n >= 2 => SecondOK(data[i], data[i + 1])
    /\ \A k \in 2..(n - 1) : IsCont(data[i + k])

CodePoint(data, i) ==
    LET n == SeqLen(data[i]) IN
    IF n = 1 THEN data[i]
    ELSE IF n = 2 THEN (data[i] - 192) * 64 + (data[i + 1] - 128)
    ELSE IF n = 3 THEN (data[i] - 224) * 4096 + (data[i + 1] - 128) * 64
                           + (data[i + 2] - 128)
    ELSE (data[i] - 240) * 262144 + (data[i + 1] - 128) * 4096
             + (data[i + 2] - 128) * 64 + (data[i + 3] - 128)

\* errors='ignore': a byte that starts no valid sequence is skipped
RECURSIVE DecodeFrom(_, _)
DecodeFrom(data, i) ==
    IF i > Len(data) THEN <<>>
    ELSE IF ValidAt(data, i)
         THEN <<Chr(CodePoint(data, i))>> \o DecodeFrom(data, i + SeqLen(data[i]))
         ELSE DecodeFrom(data, i + 1)

\* faulty variant: errors='replace', U+FFFD for each byte that is skipped
RECURSIVE DecodeReplaceFrom(_, _)
DecodeReplaceFrom(data, i) ==
    IF i > Len(data) THEN <<>>
    ELSE IF ValidAt(data, i)
         THEN <<Chr(CodePoint(data, i))>>
                  \o DecodeReplaceFrom(data, i + SeqLen(data[i]))
         ELSE <<"U+FFFD">> \o DecodeReplaceFrom(data, i + 1)

decode_replace(data) == PyStr(DecodeReplaceFrom(data, 1))

decode(data) == PyStr(DecodeFrom(data, 1))

----------------------------------------------------------------------------
(* str.strip() and the fence clean-up *)

\* the whitespace str.strip() removes (the part of it the model's texts use)
PyWhitespace == {" ", "\t", "\n", "\r", "\f"}

strip(s) == SubSeq(s, Find(s, 1, PyWhitespace, FALSE), FindLastNotIn(s, PyWhitespace))

Fence == <<BT, BT, BT, "j", "s", "o", "n">>

startswith(s, prefix) == MatchAt(s, 1, prefix)

\* faulty variant: only the opening marker is cut, [7:]
Unfence_OpeningOnly(text) ==
    LET s == strip(text) IN strip(Slice(s, 7, Len(s)))

\* response_content.strip()[7:-3].strip()
Unfence(text) ==
    LET s == strip(text) IN
    strip(Slice(s, 7, IF Len(s) >= 3 THEN Len(s) - 3 ELSE 0))

\* faulty variant: the slice is taken whether or not the text starts with the fence
CleanUp_Unconditional(text) ==
    LET s == strip(text) IN
    strip(Slice(s, 7, IF Len(s) >= 3 THEN Len(s) - 3 ELSE 0))

\* lines 87-88
CleanUp(text) ==
    IF startswith(strip(text), Fence) THEN Unfence(text) ELSE text

----------------------------------------------------------------------------
(* json.loads(response_content): the scanner and decoder of Python's json  *)
(* module, for the JSON grammar without fractions, exponents and \u        *)
(* escapes (no text of the model holds one).  A scan returns               *)
(* [ok |-> TRUE, val |-> value, end |-> index after it], or                *)
(* [ok |-> FALSE] where the module raises JSONDecodeError.                 *)

Ok(v, e) == [ok |-> TRUE, val |-> v, end |-> e]

JSONDecodeError == [ok |-> FALSE]

WHITESPACE == {" ", "\t", "\n", "\r"}

\* characters below U+0020: not allowed inside a string (strict mode)
ControlChars == {"\t", "\n", "\r", "\f"}

Digits == Chars("0123456789")

DigitValue(c) == (CHOOSE i \in 1..10 : Digits[i] = c) - 1

IsDigit(c) == \E i \in 1..10 : Digits[i] = c

\* the escapes of a string: the character after the backslash |-> its value
BACKSLASH ==
    (DQ :> DQ) @@ (BS :> BS) @@ ("/" :> "/") @@ ("b" :> "U+0008")
        @@ ("f" :> "\f") @@ ("n" :> "\n") @@ ("r" :> "\r") @@ ("t" :> "\t")

\* WHITESPACE.match(s, i).end()
SkipWhitespace(s, i) == Find(s, i, WHITESPACE, FALSE)

\* py_scanstring: s[i] is the character after the opening quote.  Each
\* round takes the chunk up to the next quote, backslash or control
\* character (STRINGCHUNK) and then handles that terminator
RECURSIVE scanstring(_, _, _)
scanstring(s, i, acc) ==
    LET j == Find(s, i, {DQ, BS} \cup ControlChars, TRUE)
        chunk == acc \o SubSeq(s, i, j - 1)
        c == At(s, j)
    IN  IF c = EOF \/ c \in ControlChars THEN JSONDecodeError
        ELSE IF c = DQ THEN Ok(chunk, j + 1)
        ELSE IF At(s, j + 1) \in DOMAIN BACKSLASH
             THEN scanstring(s, j + 2, Append(chunk, BACKSLASH[At(s, j + 1)]))
             ELSE JSONDecodeError

\* the digits of NUMBER_RE's integer part after its first digit
RECURSIVE ScanDigits(_, _, _)
ScanDigits(s, i, n) ==
    IF IsDigit(At(s, i)) THEN ScanDigits(s, i + 1, n * 10 + DigitValue(At(s, i)))
    ELSE [val |-> n, end |-> i]

\* NUMBER_RE.match(s, i): -?(0|[1-9]\d*)
ScanNumber(s, i) ==
    LET neg == At(s, i) = "-"
        j == IF neg THEN i + 1 ELSE i
        c == At(s, j)
    IN  IF ~IsDigit(c) THEN JSONDecodeError
        ELSE LET d == IF c = "0" THEN [val |-> 0, end |-> j + 1]
                      ELSE ScanDigits(s, j + 1, DigitValue(c))
             IN  Ok(PyInt(IF neg THEN 0 - d.val ELSE d.val), d.end)

RECURSIVE scan_once(_, _), JSONObjectPairs(_, _, _), JSONArrayValues(_, _, _)

\* JSONObject after the key's opening quote at s[i - 1]: pairs holds the
\* members read so far; a repeated key keeps its last value
JSONObjectPairs(s, i, pairs) ==
    LET key == scanstring(s, i, <<>>) IN
    IF ~key.ok THEN JSONDecodeError
    ELSE LET colon == SkipWhitespace(s, key.end) IN
         IF At(s, colon) # ":" THEN JSONDecodeError
         ELSE LET value == scan_once(s, SkipWhitespace(s, colon + 1)) IN
              IF ~value.ok THEN JSONDecodeError
              ELSE LET items == (key.val :> value.val) @@ pairs
                       next == SkipWhitespace(s, value.end)
                   IN  IF At(s, next) = "}" THEN Ok(PyDict(items), next + 1)
                       ELSE IF At(s, next) # "," THEN JSONDecodeError
                       ELSE LET q == SkipWhitespace(s, next + 1) IN
                            IF At(s, q) # DQ THEN JSONDecodeError
                            ELSE JSONObjectPairs(s, q + 1, items)

\* JSONObject: s[i] is the character after the opening brace
JSONObject(s, i) ==
    LET j == SkipWhitespace(s, i) IN
    IF At(s, j) = "}" THEN Ok(PyDict(<<>>), j + 1)
    ELSE IF At(s, j) # DQ THEN JSONDecodeError
    ELSE JSONObjectPairs(s, j + 1, <<>>)

\* JSONArray from the value at s[i] on: values holds the elements read so far
JSONArrayValues(s, i, values) ==
    LET value == scan_once(s, i) IN
    IF ~value.ok THEN JSONDecodeError
    ELSE LET next == SkipWhitespace(s, value.end) IN
         IF At(s, next) = "]" THEN Ok(PyList(Append(values, value.val)), next + 1)
         ELSE IF At(s, next) # "," THEN JSONDecodeError
         ELSE JSONArrayValues(s, SkipWhitespace(s, next + 1),
                              Append(values, value.val))

\* JSONArray: s[i] is the character after the opening bracket
JSONArray(s, i) ==
    LET j == SkipWhitespace(s, i) IN
    IF At(s, j) = "]" THEN Ok(PyList(<<>>), j + 1)
    ELSE JSONArrayValues(s, j, <<>>)

\* py_make_scanner's _scan_once
scan_once(s, i) ==
    LET c == At(s, i) IN
    IF c = EOF THEN JSONDecodeError
    ELSE IF c = DQ THEN LET str == scanstring(s, i + 1, <<>>) IN
                        IF str.ok THEN Ok(PyStr(str.val), str.end)
                        ELSE JSONDecodeError
    ELSE IF c = "{" THEN JSONObject(s, i + 1)
    ELSE IF c = "[" THEN JSONArray(s, i + 1)
    ELSE IF MatchAt(s, i, Chars("null")) THEN Ok(PyNone, i + 4)
    ELSE IF MatchAt(s, i, Chars("true")) THEN Ok(PyBool(TRUE), i + 4)
    ELSE IF MatchAt(s, i, Chars("false")) THEN Ok(PyBool(FALSE), i + 5)
    ELSE IF ScanNumber(s, i).ok THEN ScanNumber(s, i)
    ELSE IF MatchAt(s, i, Chars("NaN")) THEN Ok(PyFloat("nan"), i + 3)
    ELSE IF MatchAt(s, i, Chars("Infinity")) THEN Ok(PyFloat("inf"), i + 8)
    ELSE IF MatchAt(s, i, Chars("-Infinity")) THEN Ok(PyFloat("-inf"), i + 9)
    ELSE JSONDecodeError

\* JSONDecoder.decode: one value between optional whitespace, nothing after
loads(s) ==
    LET obj == scan_once(s, SkipWhitespace(s, 1)) IN
    IF ~obj.ok THEN JSONDecodeError
    ELSE IF SkipWhitespace(s, obj.end) # Len(s) + 1 THEN JSONDecodeError
    ELSE obj

----------------------------------------------------------------------------
(* The objects index() works with *)

\* the module-level client when AzureOpenAI(...) returned (lines 16-20)
AzureOpenAI == [kind |-> "AzureOpenAI"]

\* a werkzeug FileStorage: an upload field's file name and byte stream;
\* readable is FALSE when stream.read() raises
FileStorage(filename, stream, readable) ==
    [kind |-> "FileStorage", filename |-> filename, stream |-> stream,
     readable |-> readable]

Exception(type, str) == [kind |-> "exception", type |-> type, str |-> str]

\* bool(x) for the values index() tests with `not`: None is false, a
\* FileStorage is true when it has a file name, any other object is true
Truthy(x) ==
    IF x.kind = "None" THEN FALSE
    ELSE IF x.kind = "FileStorage" THEN x.filename # ""
    ELSE TRUE

\* dict.get(key) of request.files
get(d, key) == IF key \in DOMAIN d THEN d[key] ELSE PyNone

ConfigurationMessage ==
    "The Azure OpenAI client is not configured. Please check the server logs for details."

BothFilesMessage == "Please upload both files to compare."

InvalidFormatMessage == "The AI returned an invalid format. Please try again."

UnexpectedPrefix ==
    "An unexpected error occurred. Please check the terminal for the full traceback. Error: "

CouldNotRead == Chars("Could not read file content.")

\* the literal segments of the prompt's f-string (lines 56-69, 71, 73)
PromptHead ==
    << "You are an AI assistant that compares two documents and highlights their differences. "
       \o "Your task is to return the full text of both documents, keeping the original text and structure intact as much as possible. "
       \o "In the returned documents, highlight the specific word-level differences. "
       \o "Wrap deleted text in Document 1 with ", BT, "<del>", BT, " tags. "
       \o "Wrap added text in Document 2 with ", BT, "<ins>", BT, " tags. "
       \o "For lines that are completely new or deleted, wrap the entire line. "
       \o "For lines that have only minor changes, only wrap the changed words.\n\n"
       \o "Also, provide a summary of the changes. "
       \o "The entire output MUST be a single, valid JSON object with three keys: 'doc1_highlighted' (string), "
       \o "'doc2_highlighted' (string), and 'summary' (JSON array of strings). "
       \o "Each string in the 'summary' array should describe a single difference, including the line number where it occurred. "
       \o "For example: [\"Difference at line 20: 'brown' in Document 1 was replaced with 'red' in Document 2.\"]. "
       \o "Do not include any conversational text or formatting outside of the main JSON object.\n\n"
       \o "--- Document 1 ---\n" >>

\* the prompt, as the segments its f-string joins: literal segments are
\* strings, the two documents are their characters
Prompt(c1, c2) ==
    [kind |-> "str",
     parts |-> PromptHead \o <<c1.val, "\n--- Document 2 ---\n", c2.val,
                               "\n--- End of Documents ---">>]

\* get_file_content(file): the text, and the exception it swallowed if any
\* (file.read() raises on a stream that cannot be read, and on None)
get_file_content(file) ==
    IF file.kind = "FileStorage" /\ file.readable
    THEN [value |-> decode(file.stream), caught |-> <<>>]
    ELSE [value |-> PyStr(CouldNotRead),
          caught |-> <<IF file.kind = "FileStorage"
                       THEN Exception("OSError", "read failed")
                       ELSE Exception("AttributeError",
                                      "'NoneType' object has no attribute 'read'")>>]

\* render_template('index.html', results=results, error=error)
render_template(res, err) ==
    [template |-> "index.html", results |-> res, error |-> err]

----------------------------------------------------------------------------
(* The inputs of a run: the request, and what the remote endpoint does     *)
(* when client.chat.completions.create is called.                          *)

MaxFileLen == 3

MaxPad == 1

MaxSummary == 2

\* an ASCII byte, the lead and the continuation byte of a two-byte sequence,
\* the lead of a three-byte sequence, and a byte no sequence contains
FileBytes == {65, 195, 169, 226, 255}

RECURSIVE SeqsUpTo(_, _)
SeqsUpTo(S, n) ==
    IF n = 0 THEN {<<>>}
    ELSE LET shorter == SeqsUpTo(S, n - 1) IN
         shorter \cup {Append(q, x) : q \in {p \in shorter : Len(p) = n - 1}, x \in S}

ByteStrings == SeqsUpTo(FileBytes, MaxFileLen)

Upload(stream) == FileStorage("doc.txt", stream, TRUE)

\* the field of a form submitted with no file chosen
EmptyUpload == FileStorage("", <<>>, TRUE)

UnreadableUpload == FileStorage("doc.txt", <<>>, FALSE)

PlainUpload == Upload(<<65>>)

FewUploads == {EmptyUpload, UnreadableUpload, PlainUpload, Upload(<<65, 255, 195, 169>>)}

\* request.files for the uploads f1 and f2, either of which may be absent
Files(f1, f2) ==
    (IF f1 = PyNone THEN <<>> ELSE "file1" :> f1)
        @@ (IF f2 = PyNone THEN <<>> ELSE "file2" :> f2)

Request(method, f1, f2) == [method |-> method, files |-> Files(f1, f2)]

\* every method with every presence of the two fields
FewRequests ==
    {Request(m, f1, f2) : m \in {"GET", "POST"},
                          f1 \in FewUploads \cup {PyNone},
                          f2 \in FewUploads \cup {PyNone}}

\* POST requests with every byte string in one of the two files
DecodeRequests ==
    {Request("POST", Upload(b), PlainUpload) : b \in ByteStrings}
        \cup {Request("POST", PlainUpload, Upload(b)) : b \in ByteStrings}

(* JSON texts, each built from the value it denotes *)

RECURSIVE Escape(_)
Escape(chars) ==
    LET j == Find(chars, 1, {DQ, BS, "\n"}, TRUE) IN
    IF j > Len(chars) THEN chars
    ELSE SubSeq(chars, 1, j - 1)
             \o <<BS, IF chars[j] = "\n" THEN "n" ELSE chars[j]>>
             \o Escape(SubSeq(chars, j + 1, Len(chars)))

Quote(chars) == <<DQ>> \o Escape(chars) \o <<DQ>>

RECURSIVE QuoteAll(_, _)
QuoteAll(strs, comma) ==
    IF strs = <<>> THEN <<>>
    ELSE Quote(Head(strs).val)
             \o (IF Len(strs) > 1 THEN comma ELSE <<>>)
             \o QuoteAll(Tail(strs), comma)

Doc1Key == Chars("doc1_highlighted")

Doc2Key == Chars("doc2_highlighted")

SummaryKey == Chars("summary")

\* the object the prompt asks for
Comparison(doc1, doc2, summary) ==
    PyDict((Doc1Key :> PyStr(doc1)) @@ (Doc2Key :> PyStr(doc2))
               @@ (SummaryKey :> PyList(summary)))

\* the JSON text of a Comparison, with the given separators
Dumps(v, comma, colon) ==
    <<"{">> \o Quote(Doc1Key) \o colon \o Quote(v.val[Doc1Key].val) \o comma
        \o Quote(Doc2Key) \o colon \o Quote(v.val[Doc2Key].val) \o comma
        \o Quote(SummaryKey) \o colon
        \o <<"[">> \o QuoteAll(v.val[SummaryKey].val, comma) \o <<"]">> \o <<"}">>

SummaryLine(i) ==
    PyStr(Chars("Difference at line ") \o <<Digits[i + 1]>>
              \o Chars(": 'brown' in Document 1 was replaced with 'red' in Document 2."))

Documents ==
    { <<Chars("The quick <del>brown</del> fox"), Chars("The quick <ins>red</ins> fox")>>,
      <<Chars("say ") \o <<DQ>> \o Chars("hi") \o <<DQ, "\n", BS>>, <<BT, BT, BT>>>>,
      <<<<>>, <<>>>> }

Comparisons ==
    {Comparison(d[1], d[2], [i \in 1..n |-> SummaryLine(i)]) :
         d \in Documents, n \in 0..MaxSummary}

\* a text of the remote endpoint: its characters, whether they are JSON
\* and of the shape the prompt asks for, and the value they denote
Text(chars, json, shaped, value) ==
    [chars |-> chars, json |-> json, shaped |-> shaped, value |-> value]

ComparisonTexts ==
    {Text(Dumps(v, <<",", " ">>, <<":", " ">>), TRUE, TRUE, v) : v \in Comparisons}
        \cup {Text(Dumps(v, <<",">>, <<"\n", ":">>), TRUE, TRUE, v) : v \in Comparisons}

OtherJsonTexts ==
    { Text(Chars("null"), TRUE, FALSE, PyNone),
      Text(Chars("false"), TRUE, FALSE, PyBool(FALSE)),
      Text(Chars("-120"), TRUE, FALSE, PyInt(0 - 120)),
      Text(Quote(Chars("no differences")), TRUE, FALSE, PyStr(Chars("no differences"))),
      Text(Chars("[ ]"), TRUE, FALSE, PyList(<<>>)),
      Text(Chars("{}"), TRUE, FALSE, PyDict(<<>>)),
      Text(Chars("[1, [true], {}]"), TRUE, FALSE,
           PyList(<<PyInt(1), PyList(<<PyBool(TRUE)>>), PyDict(<<>>)>>)),
      Text(Chars("{\"summary\": null, \"summary\": []}"), TRUE, FALSE,
           PyDict(SummaryKey :> PyList(<<>>))) }

NotJsonTexts ==
    { Text(chars, FALSE, FALSE, PyNone) :
        chars \in { <<>>,
                    Chars("I could not compare the documents."),
                    Chars("{\"summary\": [}"),
                    Chars("{\"summary\": [],}"),
                    Chars("{'summary': []}"),
                    Chars("{\"summary\": \"a\nb\"}"),
                    Chars("{} {}"),
                    Chars("\f{}"),
                    Chars("nul") } }

\* whitespace around a text and inside a fence
Pads == {<<>>, <<" ">>} \cup {[i \in 1..n |-> "\n"] : n \in 1..MaxPad}

\* what follows the fenced text: a closing fence, nothing, a closing fence
\* and a remark
Closings ==
    { [kind |-> "closed", chars |-> <<BT, BT, BT>>],
      [kind |-> "open", chars |-> <<>>],
      [kind |-> "remark", chars |-> <<BT, BT, BT>> \o Chars("\nDone.")] }

\* a completion whose message content is the text t between the pads, bare
\* or in a fence; stub records how the content was built
Completion(t, fence, lead, left, right, closing, trail) ==
    [raises |-> FALSE,
     choices |-> << [message |-> [content |->
         PyStr(IF fence
               THEN lead \o Fence \o left \o t.chars \o right \o closing.chars \o trail
               ELSE lead \o t.chars \o trail)]] >>,
     stub |-> [text |-> t, fence |-> IF fence THEN closing.kind ELSE "none"]]

NoText == Text(<<>>, FALSE, FALSE, PyNone)

\* a completion without text: message.content is None, or no choice at all
EmptyCompletions ==
    { [raises |-> FALSE, choices |-> << [message |-> [content |-> PyNone]] >>,
       stub |-> [text |-> NoText, fence |-> "none"]],
      [raises |-> FALSE, choices |-> <<>>,
       stub |-> [text |-> NoText, fence |-> "none"]] }

\* the call raises: no connection, a timeout, rejected credentials
Failures ==
    { [raises |-> TRUE, exception |-> e, stub |-> [text |-> NoText, fence |-> "none"]] :
        e \in { Exception("APIConnectionError", "Connection error."),
                Exception("APITimeoutError", "Request timed out."),
                Exception("AuthenticationError", "Error code: 401") } }

BareCompletions ==
    {Completion(t, FALSE, lead, <<>>, <<>>, [kind |-> "none", chars |-> <<>>], trail) :
         t \in ComparisonTexts \cup OtherJsonTexts \cup NotJsonTexts,
         lead \in Pads, trail \in Pads}

FencedTexts ==
    {t \in ComparisonTexts : Len(t.value.val[SummaryKey].val) = MaxSummary}
        \cup OtherJsonTexts
        \cup {t \in NotJsonTexts : Len(t.chars) \in 1..15}

FencedCompletions ==
    {Completion(t, TRUE, lead, left, right, closing, trail) :
         t \in FencedTexts, lead \in Pads, left \in Pads, right \in Pads,
         closing \in Closings, trail \in Pads}

PlainCompletion ==
    Completion(CHOOSE t \in ComparisonTexts : TRUE, FALSE, <<>>, <<>>, <<>>,
               [kind |-> "none", chars |-> <<>>], <<>>)

FewUpstreams ==
    EmptyCompletions \cup Failures
        \cup {Completion(t, f, <<>>, <<"\n">>, <<"\n">>, c, <<>>) :
                  t \in {Text(Chars("null"), TRUE, FALSE, PyNone),
                         Text(Chars("nul"), FALSE, FALSE, PyNone)},
                  f \in BOOLEAN, c \in Closings}
        \cup {PlainCompletion}

----------------------------------------------------------------------------
(* index(): one request, from its arrival to the rendered page *)

Init ==
    /\ \/ /\ client \in {AzureOpenAI, PyNone}
          /\ request \in FewRequests
          /\ upstream \in FewUpstreams
       \/ /\ client = AzureOpenAI
          /\ request \in DecodeRequests
          /\ upstream = PlainCompletion
       \/ /\ client = AzureOpenAI
          /\ request = Request("POST", PlainUpload, PlainUpload)
          /\ upstream \in BareCompletions \cup FencedCompletions
    /\ pc = "index"
    /\ file1 = Unbound
    /\ file2 = Unbound
    /\ content1 = Unbound
    /\ content2 = Unbound
    /\ prompt = Unbound
    /\ response_content = Unbound
    /\ results = Unbound
    /\ error = Unbound
    /\ exc = PyNone
    /\ calls = 0
    /\ raised = <<>>
    /\ page = PyNone

\* lines 36-39
Enter ==
    /\ pc = "index"
    /\ results' = PyNone
    /\ error' = PyNone
    /\ pc' = IF request.method = "POST" THEN "check_client" ELSE "render"
    /\ UNCHANGED <<client, request, upstream, file1, file2, content1, content2,
                   prompt, response_content, exc, calls, raised, page>>

\* faulty variant: an unconfigured client is created again by the request
CheckClient_Reinitialize ==
    /\ pc = "check_client"
    /\ client' = AzureOpenAI
    /\ pc' = "get_files"
    /\ UNCHANGED <<request, upstream, file1, file2, content1, content2, prompt,
                   response_content, results, error, exc, calls, raised, page>>

\* lines 40-42
CheckClient ==
    /\ pc = "check_client"
    /\ IF ~Truthy(client)
       THEN /\ error' = PyStr(ConfigurationMessage)
            /\ pc' = "render"
       ELSE /\ error' = error
            /\ pc' = "get_files"
    /\ UNCHANGED <<client, request, upstream, file1, file2, content1, content2,
                   prompt, response_content, results, exc, calls, raised, page>>

\* faulty variant: `and` for `or`, only a request without any file is rejected
GetFiles_And ==
    /\ pc = "get_files"
    /\ file1' = get(request.files, "file1")
    /\ file2' = get(request.files, "file2")
    /\ IF ~Truthy(file1') /\ ~Truthy(file2')
       THEN /\ error' = PyStr(BothFilesMessage)
            /\ pc' = "render"
       ELSE /\ error' = error
            /\ pc' = "read_file1"
    /\ UNCHANGED <<client, request, upstream, content1, content2, prompt,
                   response_content, results, exc, calls, raised, page>>

\* lines 44-49
GetFiles ==
    /\ pc = "get_files"
    /\ file1' = get(request.files, "file1")
    /\ file2' = get(request.files, "file2")
    /\ IF ~Truthy(file1') \/ ~Truthy(file2')
       THEN /\ error' = PyStr(BothFilesMessage)
            /\ pc' = "render"
       ELSE /\ error' = error
            /\ pc' = "read_file1"
    /\ UNCHANGED <<client, request, upstream, content1, content2, prompt,
                   response_content, results, exc, calls, raised, page>>

\* line 52
ReadFile1 ==
    /\ pc = "read_file1"
    /\ content1' = get_file_content(file1).value
    /\ raised' = raised \o get_file_content(file1).caught
    /\ pc' = "read_file2"
    /\ UNCHANGED <<client, request, upstream, file1, file2, content2, prompt,
                   response_content, results, error, exc, calls, page>>

\* line 53
ReadFile2 ==
    /\ pc = "read_file2"
    /\ content2' = get_file_content(file2).value
    /\ raised' = raised \o get_file_content(file2).caught
    /\ pc' = "build_prompt"
    /\ UNCHANGED <<client, request, upstream, file1, file2, content1, prompt,
                   response_content, results, error, exc, calls, page>>

\* lines 55-74
BuildPrompt ==
    /\ pc = "build_prompt"
    /\ prompt' = Prompt(content1, content2)
    /\ pc' = "create"
    /\ UNCHANGED <<client, request, upstream, file1, file2, content1, content2,
                   response_content, results, error, exc, calls, raised, page>>

\* faulty variant: a call that raises is made a second time
CallUpstream_Retry ==
    /\ pc = "create"
    /\ calls' = calls + 1
    /\ IF upstream.raises
       THEN IF calls = 0
            THEN /\ exc' = exc
                 /\ raised' = raised
                 /\ pc' = "create"
            ELSE /\ exc' = upstream.exception
                 /\ raised' = Append(raised, upstream.exception)
                 /\ pc' = "except"
       ELSE /\ exc' = exc
            /\ raised' = raised
            /\ pc' = "clean_up"
    /\ UNCHANGED <<client, request, upstream, file1, file2, content1, content2,
                   prompt, response_content, results, error, page>>

\* lines 76-83: client.chat.completions.create returns or raises
CallUpstream ==
    /\ pc = "create"
    /\ calls' = calls + 1
    /\ IF upstream.raises
       THEN /\ exc' = upstream.exception
            /\ raised' = Append(raised, upstream.exception)
            /\ pc' = "except"
       ELSE /\ exc' = exc
            /\ raised' = raised
            /\ pc' = "clean_up"
    /\ UNCHANGED <<client, request, upstream, file1, file2, content1, content2,
                   prompt, response_content, results, error, page>>

IndexError == Exception("IndexError", "list index out of range")

AttributeError ==
    Exception("AttributeError", "'NoneType' object has no attribute 'strip'")

\* lines 85-88
CleanUpResponse ==
    /\ pc = "clean_up"
    /\ IF upstream.choices = <<>>
       THEN /\ response_content' = response_content
            /\ exc' = IndexError
            /\ raised' = Append(raised, IndexError)
            /\ pc' = "except"
       ELSE LET content == upstream.choices[1].message.content IN
            IF content = PyNone
            THEN /\ response_content' = content
                 /\ exc' = AttributeError
                 /\ raised' = Append(raised, AttributeError)
                 /\ pc' = "except"
            ELSE /\ response_content' = PyStr(CleanUp(content.val))
                 /\ exc' = exc
                 /\ raised' = raised
                 /\ pc' = "loads"
    /\ UNCHANGED <<client, request, upstream, file1, file2, content1, content2,
                   prompt, results, error, calls, page>>

\* faulty variant: the text that did not parse is handed to the page as results
ParseJson_KeepsText ==
    /\ pc = "loads"
    /\ LET parsed == loads(response_content.val) IN
       IF parsed.ok
       THEN /\ results' = parsed.val
            /\ error' = error
            /\ raised' = raised
       ELSE /\ results' = response_content
            /\ error' = PyStr(InvalidFormatMessage)
            /\ raised' = Append(raised, Exception("JSONDecodeError", "invalid JSON"))
    /\ pc' = "render"
    /\ UNCHANGED <<client, request, upstream, file1, file2, content1, content2,
                   prompt, response_content, exc, calls, page>>

\* lines 90-96
ParseJson ==
    /\ pc = "loads"
    /\ LET parsed == loads(response_content.val) IN
       IF parsed.ok
       THEN /\ results' = parsed.val
            /\ error' = error
            /\ raised' = raised
       ELSE /\ results' = results
            /\ error' = PyStr(InvalidFormatMessage)
            /\ raised' = Append(raised, Exception("JSONDecodeError", "invalid JSON"))
    /\ pc' = "render"
    /\ UNCHANGED <<client, request, upstream, file1, file2, content1, content2,
                   prompt, response_content, exc, calls, page>>

\* faulty variant: the message does not embed the exception
HandleException_NoDetail ==
    /\ pc = "except"
    /\ error' = PyStr(UnexpectedPrefix)
    /\ exc' = PyNone
    /\ pc' = "render"
    /\ UNCHANGED <<client, request, upstream, file1, file2, content1, content2,
                   prompt, response_content, results, calls, raised, page>>

\* lines 99-104
HandleException ==
    /\ pc = "except"
    /\ error' = PyStr(UnexpectedPrefix \o exc.str)
    /\ exc' = PyNone
    /\ pc' = "render"
    /\ UNCHANGED <<client, request, upstream, file1, file2, content1, content2,
                   prompt, response_content, results, calls, raised, page>>

\* the return statements of lines 42, 49 and 106
Render ==
    /\ pc = "render"
    /\ page' = render_template(results, error)
    /\ pc' = "done"
    /\ UNCHANGED <<client, request, upstream, file1, file2, content1, content2,
                   prompt, response_content, results, error, exc, calls, raised>>

Next ==
    \/ Enter
    \/ CheckClient
    \/ GetFiles
    \/ ReadFile1
    \/ ReadFile2
    \/ BuildPrompt
    \/ CallUpstream
    \/ CleanUpResponse
    \/ ParseJson
    \/ HandleException
    \/ Render

Spec == Init /\ [][Next]_vars

----------------------------------------------------------------------------
(* Properties *)

Done == pc = "done"

Post == request.method = "POST"

Configured == client # PyNone

\* a field of the multipart upload is absent
Missing(field) == field \notin DOMAIN request.files

BothFiles ==
    /\ Truthy(get(request.files, "file1"))
    /\ Truthy(get(request.files, "file2"))

\* the request passes the configuration check and the file-presence check
PassesChecks == Post /\ Configured /\ BothFiles

\* the upstream call returns a completion that carries a text
ReturnsText ==
    /\ ~upstream.raises
    /\ upstream.choices # <<>>
    /\ upstream.choices[1].message.content # PyNone

RawText == upstream.choices[1].message.content.val

Generic(e) == PyStr(UnexpectedPrefix \o e.str)

\* C1: a POST request with both files whose upstream call returns
\* well-formed JSON of the expected shape (the text of a Comparison, bare)
\* is rendered with results equal to the object the text denotes and with
\* no error.
C1_WellFormedJsonIsRendered ==
    (Done /\ PassesChecks /\ ReturnsText
        /\ upstream.stub.fence = "none" /\ upstream.stub.text.shaped)
    => page = render_template(upstream.stub.text.value, PyNone)

C1_Witness ==
    /\ Done /\ PassesChecks /\ ReturnsText
    /\ upstream.stub.fence = "none" /\ upstream.stub.text.shaped
    /\ page.results.kind = "dict"
    /\ Len(page.results.val[SummaryKey].val) = MaxSummary
    /\ page.results.val[Doc1Key] = PyStr(Chars("The quick <del>brown</del> fox"))
    /\ page.error = PyNone

\* C2 as stated: every POST request that is missing one or both file fields
\* renders exactly the both-files error, with no results and no upstream
\* call.
C2_MissingFileAlwaysBothFilesError ==
    (Done /\ Post /\ (Missing("file1") \/ Missing("file2")))
    => /\ page = render_template(PyNone, PyStr(BothFilesMessage))
       /\ calls = 0

\* C2 amended: every POST request that is handled while the client is
\* configured and is missing one or both file fields renders exactly the
\* both-files error, with no results, no decoding and no upstream call.
C2_MissingFileWhenConfigured ==
    (Done /\ Post /\ Configured /\ (Missing("file1") \/ Missing("file2")))
    => /\ page = render_template(PyNone, PyStr(BothFilesMessage))
       /\ calls = 0
       /\ content1 = Unbound /\ content2 = Unbound /\ prompt = Unbound

C2_Witness ==
    /\ Done /\ Post /\ Configured
    /\ Missing("file1") /\ ~Missing("file2")
    /\ page.error = PyStr(BothFilesMessage)
    /\ calls = 0

\* C3: when the client failed to initialize, a POST request never reads
\* request.files, decodes a file, builds a prompt or calls upstream, and it
\* renders the configuration error with no results, whether or not the two
\* files are present; no step of a request assigns client.
C3_Unconfigured ==
    /\ []((Post /\ ~Configured)
          => /\ file1 = Unbound /\ file2 = Unbound
             /\ content1 = Unbound /\ content2 = Unbound
             /\ prompt = Unbound /\ calls = 0
             /\ Done => page = render_template(PyNone, PyStr(ConfigurationMessage)))
    /\ [][client' = client]_vars

C3_Witness ==
    /\ Done /\ Post /\ ~Configured /\ BothFiles
    /\ page = render_template(PyNone, PyStr(ConfigurationMessage))
    /\ calls = 0

\* C4: for every JSON text J, the response J in a closed json fence and
\* the response J alone render the same results and error: both render the
\* value J denotes and no error.
C4_FenceIsTransparent ==
    (Done /\ PassesChecks /\ ReturnsText
        /\ upstream.stub.text.json /\ upstream.stub.fence \in {"none", "closed"})
    => page = render_template(upstream.stub.text.value, PyNone)

C4_Witness ==
    /\ Done /\ PassesChecks /\ ReturnsText
    /\ upstream.stub.text.shaped /\ upstream.stub.fence = "closed"
    /\ RawText # strip(RawText)
    /\ page = render_template(upstream.stub.text.value, PyNone)

\* the text between the fence markers, or the bare text, is known not to be
\* JSON and has no outer whitespace for the fence clean-up to remove
NotJsonAfterFenceStripping ==
    /\ ~upstream.stub.text.json
    /\ upstream.stub.fence \in {"none", "closed"}
    /\ upstream.stub.fence = "closed" => strip(upstream.stub.text.chars) = upstream.stub.text.chars

\* C5: when a POST request reaches the upstream call and the response text
\* is not valid JSON after fence-stripping, the page carries the fixed
\* invalid-format message and no results, and the call was made once.
C5_InvalidJsonIsReported ==
    (Done /\ PassesChecks /\ ReturnsText /\ NotJsonAfterFenceStripping)
    => /\ page = render_template(PyNone, PyStr(InvalidFormatMessage))
       /\ calls = 1

C5_Witness ==
    /\ Done /\ PassesChecks /\ ReturnsText /\ NotJsonAfterFenceStripping
    /\ upstream.stub.fence = "closed"
    /\ page.error = PyStr(InvalidFormatMessage)
    /\ calls = 1

\* C6 as stated: for a POST request that passed both checks, every
\* exception other than a JSON parse failure raised in steps 3-7 (reading
\* and decoding the files included) ends in a render with no results and
\* the generic message embedding that exception's description.
C6_EveryExceptionIsReported ==
    (Done /\ PassesChecks)
    => \A i \in 1..Len(raised) :
           raised[i].type # "JSONDecodeError"
           => page = render_template(PyNone, Generic(raised[i]))

\* C6 amended: for a POST request that passed both checks, an exception
\* raised while reading a file is caught inside get_file_content, the file's
\* text becomes "Could not read file content." and the request goes on to
\* the upstream call; every exception raised by the upstream call or while
\* post-processing its response, other than a JSON parse failure, ends in a
\* render with no results and the generic message embedding that
\* exception's description; a raised exception is pending only in the
\* handler of line 99.
C6_UpstreamExceptionsAreReported ==
    /\ exc # PyNone => pc = "except"
    /\ (Done /\ PassesChecks)
       => /\ calls = 1
          /\ ~file1.readable => content1 = PyStr(CouldNotRead)
          /\ ~file2.readable => content2 = PyStr(CouldNotRead)
          /\ upstream.raises
             => page = render_template(PyNone, Generic(upstream.exception))
          /\ (~upstream.raises /\ upstream.choices = <<>>)
             => page = render_template(PyNone, Generic(IndexError))
          /\ (~upstream.raises /\ upstream.choices # <<>> /\ ~ReturnsText)
             => page = render_template(PyNone, Generic(AttributeError))

C6_Witness ==
    /\ Done /\ PassesChecks
    /\ ~file1.readable /\ content1 = PyStr(CouldNotRead)
    /\ upstream.raises
    /\ page.error = Generic(upstream.exception)
    /\ page.results = PyNone

\* C7: a request makes at most one upstream call; when it is rendered it has
\* made exactly one if it is a POST that passed both checks, whatever the
\* call's outcome, and none otherwise.
C7_ExactlyOneCall ==
    /\ calls <= 1
    /\ Done => calls = (IF PassesChecks THEN 1 ELSE 0)

C7_Witness ==
    /\ Done /\ PassesChecks /\ upstream.raises /\ calls = 1

(* UTF-8, written down apart from decode: the characters the bytes of      *)
(* FileBytes can encode, and their encodings                               *)

Encoding ==
    ("A" :> <<65>>) @@ ("U+00E9" :> <<195, 169>>) @@ ("U+2A69" :> <<226, 169, 169>>)

RECURSIVE encode(_)
encode(text) ==
    IF text = <<>> THEN <<>> ELSE Encoding[Head(text)] \o encode(Tail(text))

RECURSIVE IsSubsequence(_, _)
IsSubsequence(a, b) ==
    IF a = <<>> THEN TRUE
    ELSE IF b = <<>> THEN FALSE
    ELSE IF Head(a) = Head(b) THEN IsSubsequence(Tail(a), Tail(b))
    ELSE IsSubsequence(a, Tail(b))

ValidTexts ==
    {t \in SeqsUpTo(DOMAIN Encoding, MaxFileLen) : Len(encode(t)) <= MaxFileLen}

\* a text, one byte that is invalid after it (no ASCII byte), a text
OneInvalidByte ==
    {p \in {<<encode(t1) \o <<x>> \o encode(t2), t1 \o t2>> :
                t1 \in ValidTexts, t2 \in ValidTexts, x \in FileBytes \ {65}} :
        Len(p[1]) <= MaxFileLen}

\* bytes with one invalid byte |-> the text around that byte
TextAround ==
    [b \in {p[1] : p \in OneInvalidByte} |->
        (CHOOSE p \in OneInvalidByte : p[1] = b)[2]]

TextAroundIsAFunction == \A p \in OneInvalidByte : TextAround[p[1]] = p[2]

\* the text is what decoding the byte stream by dropping invalid bytes gives
DecodedByDropping(stream, text) ==
    /\ text.kind = "str"
    /\ \A i \in 1..Len(text.val) : text.val[i] \in DOMAIN Encoding
    /\ IsSubsequence(encode(text.val), stream)
    /\ stream \in {encode(t) : t \in ValidTexts} => encode(text.val) = stream
    /\ stream \in DOMAIN TextAround => text.val = TextAround[stream]

\* C8: for a readable uploaded file, whatever its bytes, decoding raises
\* nothing; its text holds the validly encoded characters in order and
\* nothing else (a stream that is all valid is kept whole, an invalid byte
\* between two valid texts is dropped and both texts are kept); the text goes
\* into the prompt and the request makes its upstream call.
C8_InvalidBytesAreDropped ==
    /\ TextAroundIsAFunction
    /\ (Done /\ PassesChecks /\ file1.readable /\ file2.readable)
       => /\ DecodedByDropping(file1.stream, content1)
          /\ DecodedByDropping(file2.stream, content2)
          /\ \A i \in 1..Len(raised) : raised[i].type \notin {"OSError", "UnicodeDecodeError"}
          /\ prompt.parts[Len(PromptHead) + 1] = content1.val
          /\ prompt.parts[Len(PromptHead) + 3] = content2.val
          /\ calls = 1

C8_Witness ==
    /\ Done /\ PassesChecks
    /\ file1.readable /\ file1.stream = <<65, 255, 65>>
    /\ content1 = PyStr(<<"A", "A">>)
    /\ calls = 1
    /\ page.error = PyNone

\* C9: every POST request ends in a render with exactly one of results and
\* error set.
C9_ResultsXorError ==
    (Done /\ Post) => ((page.results = PyNone) # (page.error = PyNone))

\* the response with only its fence markers and the whitespace around them
\* removed: the closing marker is removed when the response ends with one
OnlyMarkersRemoved(text) ==
    LET s == strip(text)
        content == SubSeq(s, Len(Fence) + 1, Len(s))
    IN  IF MatchAt(content, Len(content) - 2, <<BT, BT, BT>>)
        THEN strip(SubSeq(content, 1, Len(content) - 3))
        ELSE strip(content)

\* C10: when the response text begins with a json fence, closed at the end
\* of the response or not closed at all, the text handed to the JSON parser
\* is the response with only the fence markers and the whitespace around
\* them removed.
C10_OnlyFenceMarkersRemoved ==
    (pc \in {"loads", "render", "done"} /\ PassesChecks /\ ReturnsText
        /\ upstream.stub.fence \in {"closed", "open"})
    => response_content = PyStr(OnlyMarkersRemoved(RawText))

====
